---- MODULE Spec2Model ----
(***************************************************************************)
(* Model of the HL-2000-HP-232R lamp driver (HL2000Lamp in                 *)
(* HL_2000_HP_232R_control.py).                                            *)
(*                                                                         *)
(* Spec      one driver, one caller: every public method is one action.    *)
(* SpecConc  several threads inside _safe_scpi_write / _safe_scpi_query,   *)
(*           one step per lock acquisition and per transport call.         *)
(* FairConc  SpecConc with every thread scheduled again and again.         *)
(* SpecScan  find_lamp_device() over the lists pyvisa and pyserial return.  *)
(* SpecStatus get_fault_status / get_motion_control_status on a connected  *)
(*           driver, over the replies to GFS and GST.                      *)
(* SpecLife  SpecConc with threads that also call connect() and            *)
(*           disconnect(), one step per statement that other threads can   *)
(*           observe.                                                      *)
(* SpecPanel the HL2000Widget: every slot and the timer's poll is one      *)
(*           action, run to its end on the driver of Spec.                 *)
(*                                                                         *)
(* The transport (the pyvisa SerialInstrument) and the device behind it    *)
(* are the environment: a write either is accepted or raises, a read       *)
(* returns a line or raises (timeout).  "Delivered to the transport" means *)
(* that write() was called on the open handle with that command.           *)
(***************************************************************************)
EXTENDS Integers, Sequences, FiniteSets, TLC

\* Bounds of the model.
MaxAck == 2         \* most consecutive "OK" lines the device queues before a payload
NThreads == 2       \* concurrent callers in SpecConc
MaxPorts == 2       \* serial ports of the machine find_lamp_device() runs on

VARIABLES
    isconnected,        \* self.isconnected
    isenabled,          \* self.isenabled
    drive,              \* self.drive
    pyvisa_serial,      \* self.pyvisa_serial: "None", "open" or "closed" handle
    firmware_version,   \* self.firmware_version
    lampCmd,            \* transport: last illumination command handed to the current handle
    driveCmd,           \* transport: last drive command handed to the current handle
    commanded,          \* argument and connection state of the last set_enable call
    call,               \* the last call of a driver method: what went in and what came out
    pc,                 \* SpecConc: where each thread is
    mutex,              \* SpecConc: holder of self._mutex, 0 when free
    reading,            \* SpecConc: the local variable reading of each thread's query
    shutter_position,   \* self.shutter_position
    scan,               \* SpecScan: the inputs and the outcome of find_lamp_device()
    status,             \* SpecStatus: the last get_fault_status / get_motion_control_status
    panel,              \* SpecPanel: the fields of the HL2000Widget and its last poll
    torn                \* SpecLife: the threads whose transport was closed or replaced
                        \*           while they held it

drv == <<isconnected, isenabled, drive, pyvisa_serial, firmware_version,
         lampCmd, driveCmd, commanded, call, shutter_position>>
conc == <<pc, mutex, reading>>
aux == <<scan, status, panel, torn>>
vars == <<drv, conc, aux>>

Threads == 1..NThreads

-----------------------------------------------------------------------------
(* Lines on the wire.  read_raw() returns the line with its terminator.    *)

Terminator == "\r\n"
Line(body) == body \o Terminator
Ack == Line("OK")
NumericBodies == {"25.5"}
Bodies == {"OK", "Version 1.2"} \cup NumericBodies
Lines == {Line(b) : b \in Bodies}
Payloads == Lines \ {Ack}
Timeout == "<timeout>"       \* read_raw() raises instead of returning a line

RECURSIVE Acks(_)
Acks(k) == IF k = 0 THEN <<>> ELSE <<Ack>> \o Acks(k - 1)

\* What the reads of one query find: k "OK" lines, then a payload line or a timeout.
Streams == {Acks(k) \o <<f>> : k \in 0..MaxAck, f \in Payloads \cup {Timeout}}

\* What the transport does with one query: the write raises, or the reads find a stream.
Outcomes == {[wok |-> FALSE, stream |-> <<>>]}
            \cup {[wok |-> TRUE, stream |-> s] : s \in Streams}

\* str.strip("\r\n"), and the whitespace stripping of float()
Strip(text) == IF \E b \in Bodies : Line(b) = text
               THEN CHOOSE b \in Bodies : Line(b) = text
               ELSE text

\* set_shutter_position's argument in tenths; int() truncates toward zero
Targets == {-4000, -15, 1207}
PyInt(tenths) == IF tenths < 0 THEN -((-tenths) \div 10) ELSE tenths \div 10

-----------------------------------------------------------------------------
(* find_lamp_device.  A resource is named by the number of the serial port *)
(* it stands for (ASRL<n>::INSTR); comports() lists ports, each with its   *)
(* device number and its description, a text given as its words.           *)

Ids == 1..MaxPorts
Marker == "Bluetooth"
Descriptions == {<<"USB", "Serial", "Port">>,
                 <<"Standard", "Serial", "over", Marker, "link">>}
Replies == {<<"Version", "1.2">>, <<"25.5">>}

\* Python's  word in text, over the words of the text
Contains(text, word) == \E i \in DOMAIN text : text[i] = word

\* the sequences without repetition over a set
DistinctSeqs(S) ==
    {q \in UNION {[1..n -> S] : n \in 0..Cardinality(S)} :
        \A i, j \in DOMAIN q : i # j => q[i] # q[j]}

\* list_resources_info(): the resource names, in the mapping's order
ResourceLists == DistinctSeqs(Ids)

\* comports(): the ports, in the order the operating system lists them
PortLists ==
    {[i \in DOMAIN q |-> [device |-> q[i], description |-> d[q[i]]]] :
        q \in DistinctSeqs(Ids), d \in [Ids -> Descriptions]}

\* What probing a resource runs into: open_resource raises; or it returns a handle
\* and query("VER") raises; or the query returns a reply.
ProbeOutcomes ==
    {[opened |-> FALSE, answered |-> FALSE, version |-> <<>>],
     [opened |-> TRUE, answered |-> FALSE, version |-> <<>>]}
    \cup {[opened |-> TRUE, answered |-> TRUE, version |-> r] : r \in Replies}

\* The local variables at the head of the loop; device is the resource whose handle
\* the variable device refers to (0: unbound).  tried, skipped, held and unclosed
\* record what the scan did: the resources it called open_resource for, the ones it
\* passed over for the marker, the handles that were open while a later resource was
\* being opened, and the handles it opened and did not close.
ScanStart ==
    [counter |-> -1, connected_lamps |-> {}, device |-> 0, raised |-> FALSE,
     tried |-> {}, skipped |-> {}, held |-> {}, unclosed |-> {}]

\* the body of the try statement for resource k, and the test of the reply
Probe(st, k, o) ==
    LET t == [st EXCEPT !.tried = @ \cup {k},
                        !.held = IF st.device = 0 THEN @ ELSE @ \cup {st.device}]
        h == [t EXCEPT !.device = k, !.unclosed = @ \cup {k}]
    IN  IF ~o.opened THEN t
        ELSE IF ~o.answered THEN h
        ELSE IF Contains(o.version, "Version")
             THEN [h EXCEPT !.connected_lamps = @ \cup {k}]
             ELSE h

\* the for loop, from the iteration after st.counter to the return statement
RECURSIVE ScanLoop(_, _, _, _)
ScanLoop(resources, ports, probe, st) ==
    IF st.counter + 1 >= Len(resources) THEN st
    ELSE LET counter == st.counter + 1
             k == resources[counter + 1]
             s == [st EXCEPT !.counter = counter]
         IN  IF counter >= Len(ports) THEN [s EXCEPT !.raised = TRUE]
             ELSE IF Contains(ports[counter + 1].description, Marker)
                  THEN ScanLoop(resources, ports, probe,
                                [s EXCEPT !.skipped = @ \cup {k}])
                  ELSE ScanLoop(resources, ports, probe, Probe(s, k, probe[k]))

find_lamp_device(resources, ports, probe) ==
    ScanLoop(resources, ports, probe, ScanStart)

\* no scan has run
NoProbe == [k \in Ids |-> [opened |-> FALSE, answered |-> FALSE, version |-> <<>>]]
NoScan == [pc |-> "idle", resources |-> <<>>, ports |-> <<>>, probe |-> NoProbe,
           result |-> ScanStart]

-----------------------------------------------------------------------------

(* LampInfo() with the dataclass defaults.                                 *)

LampInfo == [firmware_version |-> "N/A", is_connected |-> FALSE, is_enabled |-> FALSE,
             coil_temperature |-> "nan", shutter_position |-> "nan",
             driver_current |-> "nan"]

-----------------------------------------------------------------------------
(* A frame is the driver's fields, the transport's view, and the running   *)
(* call's log: value (what the last completed statement returned, as text; *)
(* a snapshot goes to info), raised                                        *)
(* (an exception is propagating), writes (the commands write() was called  *)
(* with), failed (the commands whose write or read raised), closed (what   *)
(* the handle had last been told when close() released it).                *)

Raise(self) == [self EXCEPT !.raised = TRUE, !.value = "None"]
Return(self, v) == [self EXCEPT !.value = v]
ReturnInfo(self, snapshot) == [self EXCEPT !.value = "LampInfo", !.info = snapshot]
PyBool(b) == IF b THEN "True" ELSE "False"

\* self.pyvisa_serial.write(message)
TransportWrite(self, message, wok) ==
    IF self.pyvisa_serial # "open"
    THEN Raise(self)      \* None has no write(); a closed session is invalid
    ELSE LET s == [self EXCEPT
                     !.writes = Append(@, message),
                     !.failed = IF wok THEN @ ELSE @ \cup {message},
                     !.lampCmd = IF message \in {"SO", "CO"} THEN message ELSE @,
                     !.driveCmd = IF message \in {"EN", "DI"} THEN message ELSE @]
         IN  IF wok THEN s ELSE Raise(s)

safe_scpi_write_uncaught(self, message, wok) ==
    IF ~self.isconnected
    THEN Return(self, "0, NO_ERROR")
    ELSE TransportWrite(self, message, wok)

safe_scpi_write(self, message, wok) ==
    IF ~self.isconnected
    THEN Return(self, "0, NO_ERROR")
    ELSE Return([TransportWrite(self, message, wok) EXCEPT !.raised = FALSE], "None")

\* the while loop of _safe_scpi_query over the lines the reads return
ReadLoop_first_line(stream) ==
    IF stream = <<>> \/ Head(stream) = Timeout
    THEN [value |-> "None", raised |-> TRUE]
    ELSE [value |-> Head(stream), raised |-> FALSE]

RECURSIVE ReadLoop(_)
ReadLoop(stream) ==
    IF stream = <<>> \/ Head(stream) = Timeout
    THEN [value |-> "None", raised |-> TRUE]      \* read_raw() times out
    ELSE IF Head(stream) = "OK\r\n"
         THEN ReadLoop(Tail(stream))
         ELSE [value |-> Head(stream), raised |-> FALSE]

safe_scpi_query(self, message, q) ==
    LET w == TransportWrite(self, message, q.wok) IN
    IF w.raised
    THEN Return([w EXCEPT !.raised = FALSE, !.failed = @ \cup {message}], "None")
    ELSE LET r == ReadLoop(q.stream) IN
         Return([w EXCEPT !.failed = IF r.raised THEN @ \cup {message} ELSE @],
                r.value)

\* float(text)
PyFloat(self, text) ==
    IF text # "None" /\ Strip(text) \in NumericBodies
    THEN Return(self, Strip(text))
    ELSE Raise(self)

-----------------------------------------------------------------------------
(* Getters.                                                                *)

get_firmware_version(self, q) == safe_scpi_query(self, "VER", q)

get_coil_temperature(self, q) ==
    LET s == safe_scpi_query(self, "TEM", q) IN PyFloat(s, s.value)

get_shutter_position(self, q) == safe_scpi_query(self, "POS", q)

get_driver_current(self, q) ==
    LET s == safe_scpi_query(self, "GRC", q) IN
    IF s.value = "None" THEN Raise(s) ELSE PyFloat(s, Strip(s.value))

-----------------------------------------------------------------------------
(* The status getters index the reply character by character.  A text is   *)
(* spelled by a sequence of characters; the replies to GFS and GST are     *)
(* lines of 4 and of 7 bits.                                               *)

RECURSIVE Join(_)
Join(chars) == IF chars = <<>> THEN "" ELSE Head(chars) \o Join(Tail(chars))

Bits(n) == [1..n -> {"0", "1"}]
Spellings == {b \o <<"\r", "\n">> : b \in Bits(4) \cup Bits(7)}
             \cup {<<"N", "o", "n", "e">>}
Spelled == {<<Join(c), c>> : c \in Spellings}
Chars(text) == (CHOOSE p \in Spelled : p[1] = text)[2]

\* chars[i] of Python, i counted from 0; IndexError is for the caller to test
Index(chars, i) == chars[i + 1]

\* What the transport does with GFS and with GST: as for any query, with a line of
\* bits for the payload; each also meets one reply of the other's length.
FaultLines == {Line(Join(b)) : b \in Bits(4)} \cup {Line("1010110")}
MotionLines == {Line(Join(b)) : b \in Bits(7)} \cup {Line("1010")}
StatusOutcomes(lines) ==
    {[wok |-> FALSE, stream |-> <<>>]}
    \cup {[wok |-> TRUE, stream |-> Acks(k) \o <<f>>] :
            k \in 0..MaxAck, f \in lines \cup {Timeout}}

FaultKeys == {"Over-temperature", "Over-current", "Under-voltage", "Over-voltage"}
NoFault == [k \in FaultKeys |-> FALSE]
MotionKeys == {"Motion mode", "Speed command input", "Speed command power",
               "Amplifier", "Position state", "external switch edge state",
               "external switch level state"}
NoMotion == [k \in MotionKeys |-> "None"]

\* a getter that returns a mapping ends with the frame and the mapping
get_fault_status_rotated(self, q) ==
    LET s == safe_scpi_query(self, "GFS", q)
        fault_status == Chars(s.value)
    IN  IF s.value = "None" \/ Len(fault_status) < 4
        THEN [frame |-> Raise(s), fault |-> NoFault]
        ELSE [frame |-> s,
              fault |-> [k \in FaultKeys |->
                  CASE k = "Over-temperature" -> Index(fault_status, 1) = "1"
                    [] k = "Over-current"     -> Index(fault_status, 2) = "1"
                    [] k = "Under-voltage"    -> Index(fault_status, 3) = "1"
                    [] k = "Over-voltage"     -> Index(fault_status, 0) = "1"]]

\* None[0] is a TypeError, and a reply shorter than 4 characters an IndexError
get_fault_status(self, q) ==
    LET s == safe_scpi_query(self, "GFS", q)
        fault_status == Chars(s.value)
    IN  IF s.value = "None" \/ Len(fault_status) < 4
        THEN [frame |-> Raise(s), fault |-> NoFault]
        ELSE [frame |-> s,
              fault |-> [k \in FaultKeys |->
                  CASE k = "Over-temperature" -> Index(fault_status, 0) = "1"
                    [] k = "Over-current"     -> Index(fault_status, 1) = "1"
                    [] k = "Under-voltage"    -> Index(fault_status, 2) = "1"
                    [] k = "Over-voltage"     -> Index(fault_status, 3) = "1"]]

\* one if / elif pair of get_motion_control_status
Decode(char, zero, one) ==
    IF char = "0" THEN zero ELSE IF char = "1" THEN one ELSE "None"

\* str(None) is "None": its index 4 is an IndexError, as is index 6 of a short reply
get_motion_control_status(self, q) ==
    LET s == safe_scpi_query(self, "GST", q)
        motion_control_status == Chars(s.value)
    IN  IF Len(motion_control_status) < 7
        THEN [frame |-> Raise(s), motion |-> NoMotion]
        ELSE [frame |-> s,
              motion |-> [k \in MotionKeys |->
                  CASE k = "Motion mode" ->
                        Decode(Index(motion_control_status, 0), "velocity", "position")
                    [] k = "Speed command input" ->
                        Decode(Index(motion_control_status, 1), "rs232", "analog")
                    [] k = "Speed command power" ->
                        Decode(Index(motion_control_status, 2), "analog voltage", "PWM")
                    [] k = "Amplifier" ->
                        Decode(Index(motion_control_status, 3), "disabled", "enabled")
                    [] k = "Position state" ->
                        Decode(Index(motion_control_status, 4), "not in position",
                               "in position")
                    [] k = "external switch edge state" ->
                        Decode(Index(motion_control_status, 5), "Falling edge is valid",
                               "Rising edge is valid")
                    [] k = "external switch level state" ->
                        Decode(Index(motion_control_status, 6), "high", "low")]]

-----------------------------------------------------------------------------

(* Setters.                                                                *)

set_enable_swapped(self, enable, wok) ==
    LET s == safe_scpi_write(self, IF enable THEN "CO" ELSE "SO", wok) IN
    IF s.raised THEN s
    ELSE Return([s EXCEPT !.isenabled = ~enable,
                          !.commanded = [enable |-> enable,
                                         connected |-> self.isconnected]], "None")

set_enable(self, enable, wok) ==
    LET s == safe_scpi_write(self, IF enable THEN "SO" ELSE "CO", wok) IN
    IF s.raised THEN s
    ELSE Return([s EXCEPT !.isenabled = enable,
                          !.commanded = [enable |-> enable,
                                         connected |-> self.isconnected]], "None")

set_home_position(self, wok) == safe_scpi_write(self, "HO", wok)

set_drive(self, enable, wok) ==
    LET s == safe_scpi_write(self, IF enable THEN "EN" ELSE "DI", wok) IN
    IF s.raised THEN s ELSE Return([s EXCEPT !.drive = enable], "None")

set_shutter_position_drive_last(self, position, w) ==
    LET b == safe_scpi_write(self, "LA" \o ToString(PyInt(position)), w[2])
        c == IF b.raised THEN b ELSE safe_scpi_write(b, "M", w[3])
        d == IF c.raised THEN c ELSE set_drive(c, TRUE, w[1])
    IN  IF d.raised THEN d ELSE Return(d, "None")

set_shutter_position(self, position, w) ==
    LET a == set_drive(self, TRUE, w[1])
        b == IF a.raised THEN a
             ELSE safe_scpi_write(a, "LA" \o ToString(PyInt(position)), w[2])
        c == IF b.raised THEN b ELSE safe_scpi_write(b, "M", w[3])
    IN  IF c.raised THEN c ELSE Return(c, "None")

-----------------------------------------------------------------------------
(* Compound methods.                                                       *)

\* connect that takes the opened handle for a connection
connect_once_opened(self, how) ==
    LET opened == [self EXCEPT !.pyvisa_serial = "open",
                               !.lampCmd = "none", !.driveCmd = "none"]
        s == IF how = "open" THEN [self EXCEPT !.isconnected = FALSE]
                             ELSE [opened EXCEPT !.isconnected = TRUE]
    IN  Return(s, PyBool(s.isconnected))

\* how: "ok", "open" (open_resource raises) or "term" (setting a terminator raises)
connect(self, how) ==
    LET opened == [self EXCEPT !.pyvisa_serial = "open",
                               !.lampCmd = "none", !.driveCmd = "none"]
        s == CASE how = "open" -> [self EXCEPT !.isconnected = FALSE]
               [] how = "term" -> [opened EXCEPT !.isconnected = FALSE]
               [] OTHER        -> [opened EXCEPT !.isconnected = TRUE]
    IN  Return(s, PyBool(s.isconnected))

disconnect(self, w) ==
    LET a == set_enable(self, FALSE, w[1])
        b == IF a.raised THEN a ELSE set_drive(a, FALSE, w[2])
    IN  IF b.raised THEN b
        ELSE IF b.pyvisa_serial = "None" THEN Raise(b)     \* None has no close()
        ELSE LET c == [b EXCEPT
                         !.closed = IF b.pyvisa_serial = "open"
                                    THEN [lamp |-> b.lampCmd, drive |-> b.driveCmd]
                                    ELSE @,
                         !.pyvisa_serial = "closed",
                         !.isconnected = FALSE,
                         !.firmware_version = "None"]
             IN  Return(c, PyBool(~c.isconnected))

InfoOf(self, v, t, p, c) ==
    [firmware_version |-> v.value,
     is_connected     |-> TRUE,
     is_enabled       |-> self.isenabled,
     coil_temperature |-> t.value,
     shutter_position |-> p.value,
     driver_current   |-> c.value]

get_info_unguarded(self, qs) ==
    LET v == get_firmware_version(self, qs[1])
        t == IF v.raised THEN v ELSE get_coil_temperature(v, qs[2])
        p == IF t.raised THEN t ELSE get_shutter_position(t, qs[3])
        c == IF p.raised THEN p ELSE get_driver_current(p, qs[4])
    IN  IF c.raised
        THEN ReturnInfo([c EXCEPT !.raised = FALSE], LampInfo)
        ELSE ReturnInfo(c, InfoOf(self, v, t, p, c))

get_info(self, qs) ==
    IF ~self.isconnected
    THEN ReturnInfo(self, LampInfo)
    ELSE LET v == get_firmware_version(self, qs[1])
             t == IF v.raised THEN v ELSE get_coil_temperature(v, qs[2])
             p == IF t.raised THEN t ELSE get_shutter_position(t, qs[3])
             c == IF p.raised THEN p ELSE get_driver_current(p, qs[4])
         IN  IF c.raised
             THEN ReturnInfo([c EXCEPT !.raised = FALSE], LampInfo)
             ELSE ReturnInfo(c, InfoOf(self, v, t, p, c))

-----------------------------------------------------------------------------
(* The control panel (HL2000Widget).  ui is the widget: lamp is the frame  *)
(* of its driver, lamp_info the snapshot it displays, available the items  *)
(* of comboboxAvailableLamp, timer whether update_timer runs, and trip     *)
(* what the last lamp_safety_check found: tripped, with was the value of   *)
(* last_enabled_state it met and found the is_enabled of the snapshot.     *)

NoTrip == [tripped |-> FALSE, was |-> FALSE, found |-> FALSE]

\* except Exception as e: logger.error(e)
Caught(lamp) == [lamp EXCEPT !.raised = FALSE]

\* a safety check that restores the last commanded value
lamp_safety_check_restoring(ui, wok) ==
    LET is_enabled == ui.lamp_info.is_enabled IN
    IF is_enabled # ui.last_enabled_state
    THEN [ui EXCEPT !.lamp = set_enable(ui.lamp, ui.last_enabled_state, wok),
                    !.trip = [tripped |-> TRUE, was |-> ui.last_enabled_state,
                              found |-> is_enabled]]
    ELSE [ui EXCEPT !.trip = NoTrip]

lamp_safety_check(ui, wok) ==
    LET is_enabled == ui.lamp_info.is_enabled IN
    IF is_enabled # ui.last_enabled_state
    THEN [ui EXCEPT !.lamp = set_enable(ui.lamp, is_enabled, wok),
                    !.last_enabled_state = is_enabled,
                    !.trip = [tripped |-> TRUE, was |-> ui.last_enabled_state,
                              found |-> is_enabled]]
    ELSE [ui EXCEPT !.trip = NoTrip]

\* self.lamp_info = self.lamp.get_info()
Shown(ui, g) == [ui EXCEPT !.lamp = g, !.lamp_info = g.info]

\* poll: the exchanges of get_info (qs) and the write of the safety check (wok)
updateLampInfo(ui, poll) ==
    lamp_safety_check(Shown(ui, get_info(ui.lamp, poll.qs)), poll.wok)

\* the rest of update_ui enables and disables controls from lamp_info
update_ui(ui, poll) == updateLampInfo(ui, poll)

\* the widget after a call on its driver; an exception of the call is caught and
\* logged by the slot.  (The set_* methods return normally: _safe_scpi_write catches
\* what the transport raises.)
With(ui, lamp) == [ui EXCEPT !.lamp = Caught(lamp)]
Commanded(ui, lamp, state) == [ui EXCEPT !.lamp = lamp, !.last_enabled_state = state]
Timer(ui, running) == [ui EXCEPT !.timer = running]

\* w: whether each of the five writes is accepted; -400 in tenths
set_initial_configurations(lamp, w) ==
    set_home_position(
        set_shutter_position(set_enable(lamp, FALSE, w[1]), -4000,
                             [i \in 1..3 |-> w[i + 1]]),
        w[5])

\* found: whether find_lamp_device raised, and the mapping it returned
find_lamp(ui, found, poll) ==
    update_ui([ui EXCEPT !.available = IF found.raised THEN @ ELSE found.lamps],
              poll)

connect_lamp(ui, how, w, poll) ==
    Timer(update_ui(With(ui, set_initial_configurations(connect(ui.lamp, how), w)),
                    poll),
          TRUE)

disconnect_lamp(ui, w, poll) ==
    Timer(update_ui(With(ui, disconnect(set_initial_configurations(ui.lamp, w),
                                        [i \in 1..2 |-> w[i + 5]])),
                    poll),
          FALSE)

\* enable_lamp without the assignment to last_enabled_state
enable_lamp_unrecorded(ui, wok, poll) ==
    update_ui(Commanded(ui, set_enable(ui.lamp, TRUE, wok), ui.last_enabled_state),
              poll)

enable_lamp(ui, wok, poll) ==
    update_ui(Commanded(ui, set_enable(ui.lamp, TRUE, wok), TRUE), poll)

disable_lamp(ui, wok, poll) ==
    update_ui(Commanded(ui, set_enable(ui.lamp, FALSE, wok), FALSE), poll)

\* the slot of spinboxShutterPosition.valueChanged; value is in tenths
widget_set_shutter_position(ui, value, w) ==
    [ui EXCEPT !.lamp = set_shutter_position(ui.lamp, value, w)]

\* the widget as __init__ leaves it: lamp_info of a disconnected driver, and a first
\* update_ui that finds nothing to correct
NoPanel == [lamp_info |-> LampInfo, last_enabled_state |-> FALSE,
            available |-> {}, timer |-> FALSE, trip |-> NoTrip]

-----------------------------------------------------------------------------

(* The single-caller specification.                                        *)

NothingClosed == [lamp |-> "-", drive |-> "-"]
NoInfo == [firmware_version |-> "-", is_connected |-> FALSE, is_enabled |-> FALSE,
           coil_temperature |-> "-", shutter_position |-> "-", driver_current |-> "-"]

\* The frame a call starts from.
Self == [isconnected |-> isconnected, isenabled |-> isenabled, drive |-> drive,
         pyvisa_serial |-> pyvisa_serial, firmware_version |-> firmware_version,
         lampCmd |-> lampCmd, driveCmd |-> driveCmd, commanded |-> commanded,
         raised |-> FALSE, value |-> "None", info |-> NoInfo,
         writes |-> <<>>, failed |-> {}, closed |-> NothingClosed]

NoStream == <<"-">>

\* The frame a call ends with becomes the driver's state and the record of the call.
Commit(op, arg, stream, s) ==
    /\ isconnected' = s.isconnected
    /\ isenabled' = s.isenabled
    /\ drive' = s.drive
    /\ pyvisa_serial' = s.pyvisa_serial
    /\ firmware_version' = s.firmware_version
    /\ lampCmd' = s.lampCmd
    /\ driveCmd' = s.driveCmd
    /\ commanded' = s.commanded
    /\ call' = [op |-> op, arg |-> arg, stream |-> stream,
                pre |-> isconnected,
                raised |-> s.raised, value |-> s.value, info |-> s.info,
                writes |-> s.writes, failed |-> s.failed, closed |-> s.closed]
    /\ UNCHANGED shutter_position       \* assigned in __init__ only
    /\ UNCHANGED <<conc, aux>>

NoCall == [op |-> "__init__", arg |-> 0, stream |-> NoStream,
           pre |-> FALSE,
           raised |-> FALSE, value |-> "None", info |-> NoInfo,
           writes |-> <<>>, failed |-> {}, closed |-> NothingClosed]

\* neither status getter has been called
NoStatus == [op |-> "-", stream |-> NoStream, raised |-> FALSE, reply |-> "None",
             fault |-> NoFault, motion |-> NoMotion]

Init ==
    /\ isconnected = FALSE
    /\ isenabled = FALSE
    /\ drive = FALSE
    /\ pyvisa_serial = "None"
    /\ firmware_version = "None"
    /\ lampCmd = "none"
    /\ driveCmd = "none"
    /\ commanded = [enable |-> FALSE, connected |-> FALSE]
    /\ call = NoCall
    /\ pc = [t \in Threads |-> "idle"]
    /\ mutex = 0
    /\ reading = [t \in Threads |-> "None"]
    /\ shutter_position = "nan"
    /\ scan = NoScan
    /\ status = NoStatus
    /\ panel = NoPanel
    /\ torn = {}

Connect == \E how \in {"ok", "open", "term"} :
    Commit("connect", 0, <<how>>, connect(Self, how))

Disconnect == \E w \in [1..2 -> BOOLEAN] :
    Commit("disconnect", 0, NoStream, disconnect(Self, w))

SetEnable == \E enable \in BOOLEAN, wok \in BOOLEAN :
    Commit("set_enable", 0, NoStream, set_enable(Self, enable, wok))

SetDrive == \E enable \in BOOLEAN, wok \in BOOLEAN :
    Commit("set_drive", 0, NoStream, set_drive(Self, enable, wok))

SetHomePosition == \E wok \in BOOLEAN :
    Commit("set_home_position", 0, NoStream, set_home_position(Self, wok))

SetShutterPosition == \E target \in Targets, w \in [1..3 -> BOOLEAN] :
    Commit("set_shutter_position", target, NoStream,
           set_shutter_position(Self, target, w))

GetFirmwareVersion == \E q \in Outcomes :
    Commit("get_firmware_version", 0, q.stream,
           get_firmware_version(Self, q))

GetCoilTemperature == \E q \in Outcomes :
    Commit("get_coil_temperature", 0, q.stream,
           get_coil_temperature(Self, q))

GetShutterPosition == \E q \in Outcomes :
    Commit("get_shutter_position", 0, q.stream,
           get_shutter_position(Self, q))

GetDriverCurrent == \E q \in Outcomes :
    Commit("get_driver_current", 0, q.stream,
           get_driver_current(Self, q))

\* The four exchanges of get_info().  An exchange shows the driver only whether the
\* write raised and what the read loop ended with, so one outcome is kept of those
\* that agree on both; and what follows an exchange that makes get_info give up is
\* never looked at, so one outcome is kept there.
Effect(q) == [wok |-> q.wok, r |-> ReadLoop(q.stream)]
Distinct == {q \in Outcomes : q = CHOOSE o \in Outcomes : Effect(o) = Effect(q)}
Quiet == [wok |-> FALSE, stream |-> <<>>]
Parses(q) == q.wok /\ Strip(Effect(q).r.value) \in NumericBodies
InfoRuns == {qs \in Distinct \X Distinct \X Distinct \X Distinct :
                ~Parses(qs[2]) => (qs[3] = Quiet /\ qs[4] = Quiet)}

GetInfo == \E qs \in InfoRuns :
    Commit("get_info", 0, NoStream, get_info(Self, qs))

Next ==
    \/ Connect
    \/ Disconnect
    \/ SetEnable
    \/ SetDrive
    \/ SetHomePosition
    \/ SetShutterPosition
    \/ GetFirmwareVersion
    \/ GetCoilTemperature
    \/ GetShutterPosition
    \/ GetDriverCurrent
    \/ GetInfo

Spec == Init /\ [][Next]_vars

-----------------------------------------------------------------------------
(* Several callers inside _safe_scpi_write and _safe_scpi_query.  A thread *)
(* is "idle" (outside both), waits for the mutex ("w_acquire",             *)
(* "q_acquire"), is inside pyvisa_serial.write ("w_writing", "q_writing"), *)
(* is at the test of the while loop ("q_test") or is inside read_raw       *)
(* ("q_reading").  reading[t] is the local variable of the query and,      *)
(* once the thread is idle again, what the call returned.                  *)

\* The driver after __init__() and a connect() that succeeded.
InitConc ==
    /\ isconnected = TRUE
    /\ isenabled = FALSE
    /\ drive = FALSE
    /\ pyvisa_serial = "open"
    /\ firmware_version = "None"
    /\ lampCmd = "none"
    /\ driveCmd = "none"
    /\ commanded = [enable |-> FALSE, connected |-> FALSE]
    /\ call = [NoCall EXCEPT !.op = "connect", !.value = "True"]
    /\ pc = [t \in Threads |-> "idle"]
    /\ mutex = 0
    /\ reading = [t \in Threads |-> "None"]
    /\ shutter_position = "nan"
    /\ scan = NoScan
    /\ status = NoStatus
    /\ panel = NoPanel
    /\ torn = {}

\* leaving the with block: the lock is released on return and on exception
Release(t) == IF mutex = t THEN 0 ELSE mutex

\* _safe_scpi_write: the test of isconnected, outside the lock
StartWrite(t) ==
    /\ pc[t] = "idle"
    /\ pc' = [pc EXCEPT ![t] = IF isconnected THEN "w_acquire" ELSE "idle"]
    /\ UNCHANGED <<drv, aux, mutex, reading>>

AcquireWrite_unlocked(t) ==
    /\ pc[t] = "w_acquire"
    /\ pc' = [pc EXCEPT ![t] = "w_writing"]
    /\ UNCHANGED <<drv, aux, mutex, reading>>

\* with self._mutex: ... self.pyvisa_serial.write(message) begins
AcquireWrite(t) ==
    /\ pc[t] = "w_acquire"
    /\ mutex = 0
    /\ mutex' = t
    /\ pc' = [pc EXCEPT ![t] = "w_writing"]
    /\ UNCHANGED <<drv, aux, reading>>

\* the write returns or raises (caught and logged); either way the call returns None
EndWrite(t) ==
    /\ pc[t] = "w_writing"
    /\ mutex' = Release(t)
    /\ pc' = [pc EXCEPT ![t] = "idle"]
    /\ UNCHANGED <<drv, aux, reading>>

\* _safe_scpi_query is entered
StartQuery(t) ==
    /\ pc[t] = "idle"
    /\ pc' = [pc EXCEPT ![t] = "q_acquire"]
    /\ UNCHANGED <<drv, aux, mutex, reading>>

\* with self._mutex: ... self.pyvisa_serial.write(message) begins
AcquireQuery(t) ==
    /\ pc[t] = "q_acquire"
    /\ mutex = 0
    /\ mutex' = t
    /\ pc' = [pc EXCEPT ![t] = "q_writing"]
    /\ UNCHANGED <<drv, aux, reading>>

\* the write returns, reading = 'OK\r\n'; or it raises and the query returns None
QueryWritten(t) ==
    /\ pc[t] = "q_writing"
    /\ \/ /\ pyvisa_serial = "open"
          /\ reading' = [reading EXCEPT ![t] = "OK\r\n"]
          /\ pc' = [pc EXCEPT ![t] = "q_test"]
          /\ UNCHANGED mutex
       \/ /\ reading' = [reading EXCEPT ![t] = "None"]
          /\ pc' = [pc EXCEPT ![t] = "idle"]
          /\ mutex' = Release(t)
    /\ UNCHANGED <<drv, aux>>

\* while reading == 'OK\r\n': read again; otherwise return reading
QueryTest(t) ==
    /\ pc[t] = "q_test"
    /\ IF reading[t] = "OK\r\n"
       THEN /\ pc' = [pc EXCEPT ![t] = "q_reading"]
            /\ UNCHANGED mutex
       ELSE /\ pc' = [pc EXCEPT ![t] = "idle"]
            /\ mutex' = Release(t)
    /\ UNCHANGED <<drv, aux, reading>>

\* read_raw() returns a line; or it raises (timeout, closed handle) and the query
\* returns None
QueryRead(t) ==
    /\ pc[t] = "q_reading"
    /\ \/ /\ pyvisa_serial = "open"
          /\ \E line \in Lines : reading' = [reading EXCEPT ![t] = line]
          /\ pc' = [pc EXCEPT ![t] = "q_test"]
          /\ UNCHANGED mutex
       \/ /\ reading' = [reading EXCEPT ![t] = "None"]
          /\ pc' = [pc EXCEPT ![t] = "idle"]
          /\ mutex' = Release(t)
    /\ UNCHANGED <<drv, aux>>

Step(t) ==
    \/ StartWrite(t)
    \/ AcquireWrite(t)
    \/ EndWrite(t)
    \/ StartQuery(t)
    \/ AcquireQuery(t)
    \/ QueryWritten(t)
    \/ QueryTest(t)
    \/ QueryRead(t)

NextConc == \E t \in Threads : Step(t)

SpecConc == InitConc /\ [][NextConc]_vars

\* A thread that can take a step is scheduled eventually.
FairConc == SpecConc /\ \A t \in Threads : WF_vars(Step(t))

-----------------------------------------------------------------------------
(* Threads that also call disconnect() and connect().  Neither method      *)
(* takes the mutex itself: disconnect() gets it inside the two             *)
(* _safe_scpi_write calls of set_enable(False) and set_drive(False) and    *)
(* has released it when it reaches close().  torn collects the threads     *)
(* that held the transport (were inside pyvisa_serial.write or between the *)
(* write and the last read of a query) when it was closed or replaced.     *)

Holding(t) == pc[t] \in {"w_writing", "q_writing", "q_test", "q_reading"}
Others(t) == {u \in Threads \ {t} : Holding(u)}

\* what no step of connect() or disconnect() assigns
untouched == <<commanded, call, shutter_position, reading, scan, status, panel>>

\* disconnect(): set_enable(False) reaches the isconnected test of _safe_scpi_write
DisconnectEnable(t) ==
    /\ pc[t] = "idle"
    /\ IF isconnected
       THEN /\ pc' = [pc EXCEPT ![t] = "d_co_acquire"]
            /\ UNCHANGED isenabled
       ELSE /\ pc' = [pc EXCEPT ![t] = "d_di_test"]
            /\ isenabled' = FALSE
    /\ UNCHANGED <<isconnected, drive, pyvisa_serial, firmware_version, lampCmd,
                   driveCmd, mutex, torn, untouched>>

DisconnectEnableAcquire(t) ==
    /\ pc[t] = "d_co_acquire"
    /\ mutex = 0
    /\ mutex' = t
    /\ pc' = [pc EXCEPT ![t] = "d_co_writing"]
    /\ UNCHANGED <<isconnected, isenabled, drive, pyvisa_serial, firmware_version,
                   lampCmd, driveCmd, torn, untouched>>

\* write("CO") returns or raises (caught); the lock is released; isenabled = False
DisconnectEnableWritten(t) ==
    /\ pc[t] = "d_co_writing"
    /\ mutex' = Release(t)
    /\ lampCmd' = IF pyvisa_serial = "open" THEN "CO" ELSE lampCmd
    /\ isenabled' = FALSE
    /\ pc' = [pc EXCEPT ![t] = "d_di_test"]
    /\ UNCHANGED <<isconnected, drive, pyvisa_serial, firmware_version, driveCmd,
                   torn, untouched>>

\* set_drive(False) reaches the isconnected test of _safe_scpi_write
DisconnectDrive(t) ==
    /\ pc[t] = "d_di_test"
    /\ IF isconnected
       THEN /\ pc' = [pc EXCEPT ![t] = "d_di_acquire"]
            /\ UNCHANGED drive
       ELSE /\ pc' = [pc EXCEPT ![t] = "d_close"]
            /\ drive' = FALSE
    /\ UNCHANGED <<isconnected, isenabled, pyvisa_serial, firmware_version, lampCmd,
                   driveCmd, mutex, torn, untouched>>

DisconnectDriveAcquire(t) ==
    /\ pc[t] = "d_di_acquire"
    /\ mutex = 0
    /\ mutex' = t
    /\ pc' = [pc EXCEPT ![t] = "d_di_writing"]
    /\ UNCHANGED <<isconnected, isenabled, drive, pyvisa_serial, firmware_version,
                   lampCmd, driveCmd, torn, untouched>>

DisconnectDriveWritten(t) ==
    /\ pc[t] = "d_di_writing"
    /\ mutex' = Release(t)
    /\ driveCmd' = IF pyvisa_serial = "open" THEN "DI" ELSE driveCmd
    /\ drive' = FALSE
    /\ pc' = [pc EXCEPT ![t] = "d_close"]
    /\ UNCHANGED <<isconnected, isenabled, pyvisa_serial, firmware_version, lampCmd,
                   torn, untouched>>

\* self.pyvisa_serial.close(), outside any with self._mutex block
DisconnectClose(t) ==
    /\ pc[t] = "d_close"
    /\ IF pyvisa_serial = "None"
       THEN /\ pc' = [pc EXCEPT ![t] = "idle"]        \* AttributeError to the caller
            /\ UNCHANGED <<pyvisa_serial, torn>>
       ELSE /\ pyvisa_serial' = "closed"
            /\ torn' = IF pyvisa_serial = "open" THEN torn \cup Others(t) ELSE torn
            /\ pc' = [pc EXCEPT ![t] = "d_flags"]
    /\ UNCHANGED <<isconnected, isenabled, drive, firmware_version, lampCmd, driveCmd,
                   mutex, untouched>>

\* self.isconnected = False; self.firmware_version = None; return
DisconnectFlags(t) ==
    /\ pc[t] = "d_flags"
    /\ isconnected' = FALSE
    /\ firmware_version' = "None"
    /\ pc' = [pc EXCEPT ![t] = "idle"]
    /\ UNCHANGED <<isenabled, drive, pyvisa_serial, lampCmd, driveCmd, mutex, torn,
                   untouched>>

\* connect(): open_resource raises (isconnected = False, return), or its result is
\* assigned to self.pyvisa_serial, outside any with self._mutex block
ConnectOpen(t) ==
    /\ pc[t] = "idle"
    /\ \/ /\ isconnected' = FALSE
          /\ UNCHANGED <<pc, pyvisa_serial, lampCmd, driveCmd, torn>>
       \/ /\ pyvisa_serial' = "open"
          /\ lampCmd' = "none"
          /\ driveCmd' = "none"
          /\ torn' = IF pyvisa_serial = "open" THEN torn \cup Others(t) ELSE torn
          /\ pc' = [pc EXCEPT ![t] = "c_termination"]
          /\ UNCHANGED isconnected
    /\ UNCHANGED <<isenabled, drive, firmware_version, mutex, untouched>>

\* the two terminators are assigned and isconnected = True; or an assignment raises
\* and isconnected = False
ConnectTermination(t) ==
    /\ pc[t] = "c_termination"
    /\ \E ok \in BOOLEAN : isconnected' = ok
    /\ pc' = [pc EXCEPT ![t] = "idle"]
    /\ UNCHANGED <<isenabled, drive, pyvisa_serial, firmware_version, lampCmd,
                   driveCmd, mutex, torn, untouched>>

LifeStep(t) ==
    \/ DisconnectEnable(t)
    \/ DisconnectEnableAcquire(t)
    \/ DisconnectEnableWritten(t)
    \/ DisconnectDrive(t)
    \/ DisconnectDriveAcquire(t)
    \/ DisconnectDriveWritten(t)
    \/ DisconnectClose(t)
    \/ DisconnectFlags(t)
    \/ ConnectOpen(t)
    \/ ConnectTermination(t)

NextLife == \E t \in Threads : Step(t) \/ LifeStep(t)

SpecLife == InitConc /\ [][NextLife]_vars

-----------------------------------------------------------------------------

(* The enumerator.  A scan starts from what pyvisa and pyserial list and   *)
(* runs find_lamp_device() against what each resource does when probed.    *)

Constructed ==
    /\ isconnected = FALSE
    /\ isenabled = FALSE
    /\ drive = FALSE
    /\ pyvisa_serial = "None"
    /\ firmware_version = "None"
    /\ lampCmd = "none"
    /\ driveCmd = "none"
    /\ commanded = [enable |-> FALSE, connected |-> FALSE]
    /\ call = NoCall
    /\ pc = [t \in Threads |-> "idle"]
    /\ mutex = 0
    /\ reading = [t \in Threads |-> "None"]
    /\ shutter_position = "nan"
    /\ status = NoStatus
    /\ panel = NoPanel
    /\ torn = {}

InitScan ==
    /\ Constructed
    /\ \E resources \in ResourceLists, ports \in PortLists :
          scan = [NoScan EXCEPT !.pc = "listed", !.resources = resources,
                                !.ports = ports]

FindLampDevice ==
    /\ scan.pc = "listed"
    /\ \E probe \in [Ids -> ProbeOutcomes] :
          LET st == find_lamp_device(scan.resources, scan.ports, probe) IN
          scan' = [scan EXCEPT !.pc = IF st.raised THEN "raised" ELSE "returned",
                               !.probe = probe, !.result = st]
    /\ UNCHANGED <<drv, conc, status, panel, torn>>

NextScan == FindLampDevice
SpecScan == InitScan /\ [][NextScan]_vars

-----------------------------------------------------------------------------
(* The status getters on a connected driver.                               *)

InitStatus ==
    /\ isconnected = TRUE
    /\ isenabled = FALSE
    /\ drive = FALSE
    /\ pyvisa_serial = "open"
    /\ firmware_version = "None"
    /\ lampCmd = "none"
    /\ driveCmd = "none"
    /\ commanded = [enable |-> FALSE, connected |-> FALSE]
    /\ call = [NoCall EXCEPT !.op = "connect", !.value = "True"]
    /\ pc = [t \in Threads |-> "idle"]
    /\ mutex = 0
    /\ reading = [t \in Threads |-> "None"]
    /\ shutter_position = "nan"
    /\ scan = NoScan
    /\ status = NoStatus
    /\ panel = NoPanel
    /\ torn = {}

GetFaultStatus ==
    /\ \E q \in StatusOutcomes(FaultLines) :
          LET r == get_fault_status(Self, q) IN
          status' = [op |-> "get_fault_status", stream |-> q.stream,
                     raised |-> r.frame.raised, reply |-> r.frame.value,
                     fault |-> r.fault, motion |-> NoMotion]
    /\ UNCHANGED <<drv, conc, scan, panel, torn>>

GetMotionControlStatus ==
    /\ \E q \in StatusOutcomes(MotionLines) :
          LET r == get_motion_control_status(Self, q) IN
          status' = [op |-> "get_motion_control_status", stream |-> q.stream,
                     raised |-> r.frame.raised, reply |-> r.frame.value,
                     fault |-> NoFault, motion |-> r.motion]
    /\ UNCHANGED <<drv, conc, scan, panel, torn>>

NextStatus == GetFaultStatus \/ GetMotionControlStatus
SpecStatus == InitStatus /\ [][NextStatus]_vars

-----------------------------------------------------------------------------

(* The control panel.  A slot runs to its end before the next event is     *)
(* handled (one Qt event loop).  Its inputs are what the transport does    *)
(* with the writes of the slot (ok: accepts them or raises) and with the   *)
(* four queries of the poll (qs).  Slots of push buttons are guarded by    *)
(* the setEnabled calls of update_ui; the members of groupboxControl are   *)
(* laid out in the generated Ui_HL2000Widget, so its enabling guards none. *)

Ui == [lamp |-> Self, lamp_info |-> panel.lamp_info,
       last_enabled_state |-> panel.last_enabled_state,
       available |-> panel.available, timer |-> panel.timer, trip |-> panel.trip]

Polls == {[ok |-> ok, qs |-> qs] : ok \in BOOLEAN, qs \in InfoRuns}
PollOf(e) == [qs |-> e.qs, wok |-> e.ok]
Writes(n, e) == [i \in 1..n |-> e.ok]

\* what find_lamp_device() can come back with
ScanOutcomes ==
    {[raised |-> st.raised, lamps |-> st.connected_lamps] :
        st \in {find_lamp_device(r, p, o) :
                    r \in ResourceLists, p \in PortLists, o \in [Ids -> ProbeOutcomes]}}

\* spinboxShutterPosition.value(), in tenths: 0 to its maximum of 400
SpinboxValues == {0, 4000}

InitPanel ==
    /\ Constructed
    /\ scan = NoScan

\* The widget and its driver after a slot; call names the slot.
CommitPanel(op, u) ==
    /\ isconnected' = u.lamp.isconnected
    /\ isenabled' = u.lamp.isenabled
    /\ drive' = u.lamp.drive
    /\ pyvisa_serial' = u.lamp.pyvisa_serial
    /\ firmware_version' = u.lamp.firmware_version
    /\ lampCmd' = u.lamp.lampCmd
    /\ driveCmd' = u.lamp.driveCmd
    /\ commanded' = u.lamp.commanded
    /\ call' = [NoCall EXCEPT !.op = op]
    /\ panel' = [lamp_info |-> u.lamp_info, last_enabled_state |-> u.last_enabled_state,
                 available |-> u.available, timer |-> u.timer, trip |-> u.trip]
    /\ UNCHANGED <<shutter_position, conc, scan, status, torn>>

FindLamp ==
    /\ ~panel.lamp_info.is_connected
    /\ \E found \in ScanOutcomes, e \in Polls :
          CommitPanel("find_lamp", find_lamp(Ui, found, PollOf(e)))

ConnectLamp ==
    /\ ~panel.lamp_info.is_connected
    /\ \E how \in {"ok", "open", "term"}, e \in Polls :
          CommitPanel("connect_lamp", connect_lamp(Ui, how, Writes(5, e), PollOf(e)))

DisconnectLamp ==
    /\ panel.lamp_info.is_connected
    /\ \E e \in Polls :
          CommitPanel("disconnect_lamp", disconnect_lamp(Ui, Writes(7, e), PollOf(e)))

EnableLamp ==
    /\ ~panel.lamp_info.is_enabled
    /\ \E e \in Polls :
          CommitPanel("enable_lamp", enable_lamp(Ui, e.ok, PollOf(e)))

DisableLamp ==
    \E e \in Polls :
        CommitPanel("disable_lamp", disable_lamp(Ui, e.ok, PollOf(e)))

WidgetSetShutterPosition ==
    \E value \in SpinboxValues, ok \in BOOLEAN :
        CommitPanel("set_shutter_position",
                    widget_set_shutter_position(Ui, value, [i \in 1..3 |-> ok]))

\* update_timer.timeout
Poll ==
    /\ panel.timer
    /\ \E e \in Polls : CommitPanel("update_ui", update_ui(Ui, PollOf(e)))

NextPanel == FindLamp \/ ConnectLamp \/ DisconnectLamp \/ EnableLamp \/ DisableLamp
             \/ WidgetSetShutterPosition \/ Poll
SpecPanel == InitPanel /\ [][NextPanel]_vars

-----------------------------------------------------------------------------

(* Properties.                                                             *)

\* The all-unknown snapshot, field by field.
AllUnknown(info) ==
    /\ info.firmware_version = "N/A"
    /\ info.is_connected = FALSE
    /\ info.is_enabled = FALSE
    /\ info.coil_temperature = "nan"
    /\ info.shutter_position = "nan"
    /\ info.driver_current = "nan"

\* C1: whenever disconnect() has closed a transport, the last illumination command
\* handed to that transport was not SO (a CO followed the last SO) and the last
\* drive command was not EN (a DI followed the last EN).
C1_LampOffBeforeClose ==
    (call.op = "disconnect" /\ call.closed # NothingClosed)
        => (call.closed.lamp # "SO" /\ call.closed.drive # "EN")

\* C2: disconnect() on a driver that is already disconnected does not raise, returns
\* the disconnected status and leaves the driver disconnected.
C2_DisconnectWhenDisconnected ==
    (call.op = "disconnect" /\ ~call.pre)
        => (~call.raised /\ call.value = "True" /\ ~isconnected)

\* C3: get_info() on a connected driver, one of whose exchanges (VER, TEM, POS, GRC)
\* failed at the transport, returns the all-unknown snapshot; and no snapshot with
\* is_connected true holds a missing value in one of its fields.
C3_GetInfoFailAtomic ==
    (call.op = "get_info" /\ call.pre)
        => /\ call.failed # {} => AllUnknown(call.info)
           /\ call.info.is_connected =>
                /\ call.info.firmware_version \notin {"None", "N/A"}
                /\ call.info.coil_temperature \notin {"None", "nan"}
                /\ call.info.shutter_position \notin {"None", "nan"}
                /\ call.info.driver_current \notin {"None", "nan"}

\* C4: every snapshot get_info() returns with is_connected false is the all-unknown
\* snapshot, and get_info() on a disconnected driver returns it without calling the
\* transport.
C4_DisconnectedSnapshotUnknown ==
    call.op = "get_info"
        => /\ ~call.raised
           /\ ~call.info.is_connected => AllUnknown(call.info)
           /\ ~call.pre => (AllUnknown(call.info) /\ call.writes = <<>>)

\* C4 happens: get_info() on a driver that was connected before, is disconnected now
\* and still has its enabled flag set.
C4_Witness ==
    /\ call.op = "get_info"
    /\ ~call.pre
    /\ isenabled
    /\ pyvisa_serial # "None"

\* C5: disconnect() on a connected driver whose CO or DI write fails at the transport
\* still closes the transport and ends disconnected, without raising.
C5_DisconnectBestEffort ==
    (call.op = "disconnect" /\ call.pre /\ call.failed # {})
        => (~call.raised /\ pyvisa_serial = "closed" /\ ~isconnected
            /\ call.closed # NothingClosed)

\* C5 happens: both writes of a disconnect() failed.
C5_Witness ==
    /\ call.op = "disconnect"
    /\ call.pre
    /\ call.failed = {"CO", "DI"}
    /\ ~isconnected

\* C6: while a thread is between the write of its query and the return of the reply,
\* or inside a transport call, no other thread is inside a transport call.
InTransport(t) == pc[t] \in {"w_writing", "q_writing", "q_reading"}
InExchange(t) == pc[t] \in {"q_writing", "q_test", "q_reading"}
C6_ExchangesAtomic ==
    \A t \in Threads, u \in Threads :
        (t # u /\ (InExchange(t) \/ InTransport(t))) => ~InTransport(u)

\* C6 happens: one thread is reading a reply while another wants to write, and one
\* thread is writing while another wants to query.
C6_Witness ==
    \E t \in Threads, u \in Threads :
        /\ t # u
        /\ pc[t] = "q_reading"
        /\ pc[u] = "w_acquire"

\* C7: a query that has written its command returns.
C7_QueryTerminates ==
    \A t \in Threads : (pc[t] = "q_test") ~> (pc[t] = "idle")

\* C8: when the reads of a query find k "OK" lines and then a substantive line, the
\* query returns that line; and get_shutter_position never returns "OK".
AckLine == "OK" \o "\r\n"
FirstSubstantive(stream) ==
    stream[CHOOSE i \in 1..Len(stream) :
              stream[i] # AckLine /\ \A j \in 1..(i - 1) : stream[j] = AckLine]
Substantive(stream) ==
    /\ stream # <<>>
    /\ \E i \in 1..Len(stream) :
          /\ stream[i] \notin {AckLine, Timeout}
          /\ \A j \in 1..(i - 1) : stream[j] = AckLine
C8_QueryReturnsFirstPayload ==
    /\ (/\ call.op \in {"get_shutter_position", "get_firmware_version"}
        /\ call.writes # <<>>
        /\ Substantive(call.stream))
            => (~call.raised /\ call.value = FirstSubstantive(call.stream))
    /\ call.op = "get_shutter_position" => call.value # AckLine

\* C8 happens: the position query found the largest number of "OK" lines before
\* the position.
C8_Witness ==
    /\ call.op = "get_shutter_position"
    /\ call.writes = <<"POS">>
    /\ Len(call.stream) = MaxAck + 1
    /\ Substantive(call.stream)
    /\ call.stream[1] = AckLine

\* C9: set_shutter_position(target) on a connected driver hands EN, LA<int(target)>
\* and M to the transport, in that order and nothing else, and leaves drive true.
Truncated(tenths) ==
    CHOOSE n \in -500..500 :
        /\ n * tenths >= 0
        /\ (IF tenths < 0 THEN -tenths ELSE tenths) - 10 * (IF n < 0 THEN -n ELSE n)
              \in 0..9
        /\ (n = 0) => (tenths \in -9..9)
C9_ShutterCommandOrder ==
    (call.op = "set_shutter_position" /\ call.pre)
        => /\ call.writes = <<"EN", "LA" \o ToString(Truncated(call.arg)), "M">>
           /\ drive
           /\ ~call.raised

\* C9 happens: a negative, fractional target on a connected driver.
C9_Witness ==
    /\ call.op = "set_shutter_position"
    /\ call.pre
    /\ call.arg = -15
    /\ call.writes = <<"EN", "LA-1", "M">>

\* C10: a snapshot of a connected driver shows the argument of the last set_enable
\* made while connected; and set_enable on a connected driver hands SO (true) or
\* CO (false) to the transport.
C10_EnableRoundTrip ==
    /\ (call.op = "get_info" /\ call.info.is_connected /\ commanded.connected)
            => call.info.is_enabled = commanded.enable
    /\ (call.op = "set_enable" /\ call.pre)
            => /\ commanded.connected
               /\ call.writes = <<IF commanded.enable THEN "SO" ELSE "CO">>
               /\ isenabled = commanded.enable

\* C10 happens: the snapshot shows the lamp on after set_enable(true).
C10_Witness ==
    /\ call.op = "get_info"
    /\ call.info.is_connected
    /\ commanded.connected
    /\ commanded.enable
    /\ call.info.is_enabled

\* C11: whenever isconnected is false the driver holds no open transport: the
\* handle is absent or closed.
C11_NoHandleWhenDisconnected ==
    ~isconnected => pyvisa_serial # "open"

\* The write and query operations of the driver.
WriteQueryOps ==
    {"set_enable", "set_drive", "set_home_position", "set_shutter_position",
     "get_firmware_version", "get_shutter_position", "get_coil_temperature",
     "get_driver_current", "get_fault_status", "get_motion_control_status"}

\* The transport failed during the last call: a write raised, or a read timed out.
TransportFailed ==
    \/ call.failed # {}
    \/ call.stream # <<>> /\ call.stream[Len(call.stream)] = Timeout

\* C12: a write or query operation during which the transport fails returns
\* normally to its caller.
C12_NoRaiseOnTransportFailure ==
    (call.op \in WriteQueryOps /\ TransportFailed) => ~call.raised

\* The port a resource stands for carries the marker in its description.
Wireless(k) ==
    \E i \in DOMAIN scan.ports :
        /\ scan.ports[i].device = k
        /\ Contains(scan.ports[i].description, Marker)

Listed(k) == \E i \in DOMAIN scan.resources : scan.resources[i] = k

\* C13: a scan never opens or reports a resource whose port's description contains
\* the Bluetooth marker, and never passes over a resource for the marker when its
\* port's description does not contain it.
C13_SkipsExactlyBluetooth ==
    scan.pc \in {"returned", "raised"} =>
        \A k \in Ids :
            /\ Wireless(k) => k \notin scan.result.tried \cup scan.result.connected_lamps
            /\ ~Wireless(k) => k \notin scan.result.skipped

\* The resources the scan probed without getting a reply: open_resource or the
\* query raised.
Failing == {k \in scan.result.tried : ~scan.probe[k].answered}

\* C14: a scan in which opening or querying some resource fails still runs to its
\* return statement and probes every listed resource it does not pass over; and a
\* scan returns exactly the probed resources whose reply contains "Version".
C14_FailingPortSkipped ==
    /\ (scan.pc \in {"returned", "raised"} /\ Failing # {})
            => /\ scan.pc = "returned"
               /\ scan.result.tried = {k \in Ids : Listed(k)} \ scan.result.skipped
    /\ scan.pc = "returned"
            => scan.result.connected_lamps =
                    {k \in scan.result.tried :
                        /\ scan.probe[k].answered
                        /\ Contains(scan.probe[k].version, "Version")}

\* C15: no handle the scan opened is still open when the scan opens a later
\* resource.
C15_ProbeHandleClosed ==
    scan.pc \in {"returned", "raised"} => scan.result.held = {}

\* C16: when the reply to GFS is a line of 4 bits b, get_fault_status returns the
\* mapping with Over-temperature = (b[0] = "1"), Over-current = (b[1] = "1"),
\* Under-voltage = (b[2] = "1") and Over-voltage = (b[3] = "1").
C16_FaultDecoding ==
    status.op = "get_fault_status" =>
        \A b \in Bits(4) :
            status.reply = Line(Join(b)) =>
                /\ ~status.raised
                /\ status.fault["Over-temperature"] = (b[1] = "1")
                /\ status.fault["Over-current"] = (b[2] = "1")
                /\ status.fault["Under-voltage"] = (b[3] = "1")
                /\ status.fault["Over-voltage"] = (b[4] = "1")

\* C16 happens: the reply 0100 sets the over-current flag and no other.
C16_Witness ==
    /\ status.op = "get_fault_status"
    /\ status.reply = Line("0100")
    /\ status.fault = [NoFault EXCEPT !["Over-current"] = TRUE]

\* The bit table of get_motion_control_status's docstring: the entry of the
\* mapping, the text for bit value 0 and the text for bit value 1, bit 0 first.
DocTable ==
    << <<"Motion mode", "velocity", "position">>,
       <<"Speed command input", "rs232", "analog">>,
       <<"Speed command power", "analog voltage", "PWM">>,
       <<"Amplifier", "disabled", "enabled">>,
       <<"Position state", "not in position", "in position">>,
       <<"external switch edge state", "Falling edge is valid", "Rising edge is valid">>,
       <<"external switch level state", "low", "high">> >>

\* C17: when the reply to GST is a line of 7 bits, every entry of the mapping
\* get_motion_control_status returns is the docstring's text for the value of its bit.
C17_MotionDecoding ==
    status.op = "get_motion_control_status" =>
        \A b \in Bits(7) :
            status.reply = Line(Join(b)) =>
                /\ ~status.raised
                /\ \A i \in 1..7 :
                      status.motion[DocTable[i][1]] =
                          IF b[i] = "1" THEN DocTable[i][3] ELSE DocTable[i][2]

\* C18: on a connected driver the enabled flag is true only if the last illumination
\* command delivered to the current transport is SO, and the drive flag is true only
\* if the last drive command delivered to it is EN.
C18_FlagsReflectLastCommand ==
    isconnected => /\ isenabled => lampCmd = "SO"
                   /\ drive => driveCmd = "EN"

\* C19: a driver is constructed disconnected; connect() never raises, returns true
\* exactly when open_resource and both terminator assignments succeeded, and then
\* isconnected is true, while a failing open_resource gives false and isconnected
\* false; and connect() changes neither isenabled nor drive.
C19_Connect ==
    /\ ~isconnected
    /\ [](call.op = "connect" =>
            /\ ~call.raised
            /\ call.value = "True" <=> call.stream = <<"ok">>
            /\ isconnected <=> call.value = "True"
            /\ call.stream = <<"open">> => (call.value = "False" /\ ~isconnected))
    /\ [][call'.op = "connect" => (isenabled' = isenabled /\ drive' = drive)]_vars

\* C19 happens: connect() succeeds on a driver whose flags were set before, and
\* leaves them set.
C19_Witness ==
    /\ call.op = "connect"
    /\ call.stream = <<"ok">>
    /\ call.value = "True"
    /\ isconnected
    /\ isenabled
    /\ drive

\* C20: after get_shutter_position() returned a position on a connected driver, and
\* after a get_info() whose snapshot carries a position, the driver's cached
\* shutter_position is that position.
C20_ShutterPositionCached ==
    /\ (/\ call.op = "get_shutter_position"
        /\ call.pre
        /\ ~call.raised
        /\ Strip(call.value) \in NumericBodies)
            => shutter_position = Strip(call.value)
    /\ (/\ call.op = "get_info"
        /\ call.info.is_connected
        /\ Strip(call.info.shutter_position) \in NumericBodies)
            => shutter_position = Strip(call.info.shutter_position)

\* C21 (as stated): a poll that finds the snapshot's is_enabled different from
\* last_enabled_state leaves the driver's enabled flag and last_enabled_state at the
\* value last_enabled_state had.
C21_TripRestoresCommanded ==
    (call.op # "set_shutter_position" /\ panel.trip.tripped)
        => /\ isenabled = panel.trip.was
           /\ panel.last_enabled_state = panel.trip.was

\* C21 (amended): a poll that finds the snapshot's is_enabled different from
\* last_enabled_state sets the lamp to the snapshot's value: set_enable is called
\* with it (SO or CO goes to the transport of a connected driver), and the driver's
\* enabled flag and last_enabled_state both end at the snapshot's value.
C21_TripFollowsSnapshot ==
    (call.op # "set_shutter_position" /\ panel.trip.tripped)
        => /\ panel.trip.found # panel.trip.was
           /\ panel.trip.found = panel.lamp_info.is_enabled
           /\ isenabled = panel.trip.found
           /\ panel.last_enabled_state = panel.trip.found
           /\ isconnected => lampCmd = (IF panel.trip.found THEN "SO" ELSE "CO")

\* C21 happens: the lamp was enabled from the panel, a poll's read failed on the
\* connected driver, and the safety check switched the lamp off.
C21_Witness ==
    /\ call.op = "update_ui"
    /\ panel.trip = [tripped |-> TRUE, was |-> TRUE, found |-> FALSE]
    /\ isconnected
    /\ lampCmd = "CO"

\* C22: after every slot of the panel and every poll, the driver's enabled flag,
\* last_enabled_state and the is_enabled of the displayed snapshot are equal; and
\* when the displayed snapshot is all-unknown the lamp is commanded off: the three
\* are false and the last illumination command the transport was handed is not SO.
C22_EnableViewsAgree ==
    /\ isenabled = panel.last_enabled_state
    /\ panel.last_enabled_state = panel.lamp_info.is_enabled
    /\ AllUnknown(panel.lamp_info)
            => (~isenabled /\ ~panel.last_enabled_state /\ lampCmd # "SO")

\* C22 happens: a poll of the connected driver came back all-unknown while the lamp
\* was on, and ends with the three views off and CO handed to the transport.
C22_Witness ==
    /\ call.op = "update_ui"
    /\ AllUnknown(panel.lamp_info)
    /\ isconnected
    /\ panel.trip.was
    /\ ~isenabled
    /\ ~panel.last_enabled_state
    /\ lampCmd = "CO"

\* C23: the transport is never closed by disconnect() and never replaced by
\* connect() while another thread is inside pyvisa_serial.write or between the write
\* and the last read of its query.
C23_TransportNotTorn ==
    torn = {}

====
